---- MODULE Spec2Model ----
(***************************************************************************)
(* Four batch scripts of the hospital disaster-demand repository:          *)
(*   dataset.py                     the discrete scenario table            *)
(*   continuous_dataset.py          the continuous correlated sampler      *)
(*   hospital_continuous_dataset.py the hybrid sampler                     *)
(*   uncertainty_sets.py            the uncertainty-set builder            *)
(* One process runs one script (variable script); the generators can be    *)
(* run a second time from a fresh process to compare their output.         *)
(*                                                                         *)
(* Numbers.  Floating point values are modelled exactly:                   *)
(*   - probabilities, weights and statistics are rationals <<n, d>>,       *)
(*     d > 0, in lowest terms;                                             *)
(*   - generator demands and noise components are integers in units of     *)
(*     1e-6 (micro), severities and severity scores in units of 1e-3.      *)
(* The numpy generator is a seeded deterministic stream: a 12-bit linear   *)
(* congruential state, from which uniforms (hundredths) and standard       *)
(* normals (integers -3..3) are read.  exp, log1p and sqrt are tabulated   *)
(* to three decimals on the values the stream can produce.                 *)
(***************************************************************************)
EXTENDS Integers, Sequences, FiniteSets, TLC

\* ---------------------------------------------------------------- bounds
MaxSeed == 2          \* seeds 0..MaxSeed stand for the generator's streams
MaxScenarios == 3     \* NUM_SCENARIOS ranges over -1..MaxScenarios
MaxRows == 5          \* rows per hospital in the CSV the builder reads
MaxDemandNum == 3     \* input demands are 0/DemandDen .. MaxDemandNum/DemandDen
DemandDen == 2

\* ----------------------------------------------------------------- state
VARIABLES
    script,       \* which script this process runs
    pc,           \* position in the script
    error,        \* the exception that ended the script, "" if none
    run,          \* 1, or 2 for the repeated run of a generator
    seed,         \* the literal seed of RNG = np.random.default_rng(seed=...)
    RNG,          \* the process-wide generator's state
    calls,        \* the generator methods called so far, in call order
    NUM_SCENARIOS,
    INCLUDE_BASELINE_SCENARIO,
    BASELINE_PROBABILITY_SHARE,   \* <<>> for None, <<share>> otherwise
    include_baseline,             \* sample_scenarios' second argument
    draws,        \* sample_scenarios' list of ScenarioDraw
    loop,         \* <<outer, inner>> loop indices of the running script
    rows,         \* the rows assembled so far / the DataFrame written
    summary,      \* summarize_dataset's result
    prev,         \* what the first run wrote, kept for the second
    df,           \* the demand column per hospital the builder reads
    stats         \* the builder's per-hospital statistics

vars == <<script, pc, error, run, seed, RNG, calls, NUM_SCENARIOS,
          INCLUDE_BASELINE_SCENARIO, BASELINE_PROBABILITY_SHARE, include_baseline,
          draws, loop, rows, summary, prev, df, stats>>

\* ------------------------------------------------------------- rationals
Abs(x) == IF x < 0 THEN -x ELSE x

RECURSIVE GCD(_, _)
GCD(a, b) == IF b = 0 THEN a ELSE GCD(b, a % b)

Rat(n, d) ==
    LET g == GCD(Abs(n), Abs(d))
        s == IF d < 0 THEN -1 ELSE 1
    IN  <<(s * n) \div g, (s * d) \div g>>

RAdd(x, y) ==
    LET g == GCD(x[2], y[2])
    IN  Rat(x[1] * (y[2] \div g) + y[1] * (x[2] \div g), (x[2] \div g) * y[2])

RNeg(x) == <<-x[1], x[2]>>

RSub(x, y) == RAdd(x, RNeg(y))

RMul(x, y) ==
    LET g1 == GCD(Abs(x[1]), y[2])
        g2 == GCD(Abs(y[1]), x[2])
    IN  Rat((x[1] \div g1) * (y[1] \div g2), (x[2] \div g2) * (y[2] \div g1))

RInv(x) == IF x[1] < 0 THEN <<-x[2], -x[1]>> ELSE <<x[2], x[1]>>

RDiv(x, y) == RMul(x, RInv(y))

RLe(x, y) ==
    LET g == GCD(x[2], y[2]) IN x[1] * (y[2] \div g) <= y[1] * (x[2] \div g)

RLt(x, y) ==
    LET g == GCD(x[2], y[2]) IN x[1] * (y[2] \div g) < y[1] * (x[2] \div g)

RFloor(x) == x[1] \div x[2]

RCeil(x) == -((-x[1]) \div x[2])

RInt(k) == <<k, 1>>

RECURSIVE RSum(_)
RSum(s) == IF s = <<>> THEN RInt(0) ELSE RAdd(s[1], RSum(Tail(s)))

RECURSIVE RSetSum(_)
RSetSum(S) ==
    IF S = {} THEN RInt(0)
    ELSE LET x == CHOOSE y \in S : TRUE IN RAdd(x[2], RSetSum(S \ {x}))

RECURSIVE Flatten(_)
Flatten(ss) == IF ss = <<>> THEN <<>> ELSE ss[1] \o Flatten(Tail(ss))

\* ------------------------------------------------------- numpy primitives
\* np.clip(x, lo, None)
np_clip_unclipped(x, lo) == x

np_clip(x, lo) == IF x < lo THEN lo ELSE x

\* np.round / round: to the nearest multiple of unit, ties to even
np_round(x, unit) ==
    LET q == x \div unit
        r == x % unit
    IN  IF 2 * r < unit THEN q * unit
        ELSE IF 2 * r > unit THEN (q + 1) * unit
        ELSE IF q % 2 = 0 THEN q * unit ELSE (q + 1) * unit

\* np.clip on a rational, both bounds given
RClip(x, lo, hi) == IF RLt(x, lo) THEN lo ELSE IF RLt(hi, x) THEN hi ELSE x

\* f"{n:03d}" and f"{n:04d}"
Format03d(n) ==
    IF n < 10 THEN "00" \o ToString(n)
    ELSE IF n < 100 THEN "0" \o ToString(n) ELSE ToString(n)

Format04d(n) == IF n < 1000 THEN "0" \o Format03d(n) ELSE ToString(n)

\* ------------------------------------------------- the random generator
\* np.random.default_rng(seed): the state a seed starts the stream in
default_rng(s) == (s * 977 + 42) % 4096

\* the next state of the stream
rng_advance_per_process(s) == (s * 1229 + 1 + run) % 4096

rng_advance(s) == (s * 1229 + 1) % 4096

\* a uniform in hundredths and a standard normal in -3..3 read off a state
rng_uniform(s) == (s \div 8) % 100

rng_standard_normal(s) == ((s \div 16) % 7) - 3

\* three successive standard normals and the state after them
rng_normals3(s) ==
    LET s1 == rng_advance(s)
        s2 == rng_advance(s1)
        s3 == rng_advance(s2)
    IN  [val |-> <<rng_standard_normal(s1), rng_standard_normal(s2),
                   rng_standard_normal(s3)>>,
         rng |-> s3]

\* RNG.choice(n, p): index of the first cumulative probability above u
RNG_choice(s, p) ==
    LET s1 == rng_advance(s)
        u == Rat(rng_uniform(s1), 100)
        cdf == [i \in 1..Len(p) |-> RSum(SubSeq(p, 1, i))]
    IN  [val |-> Cardinality({i \in 1..Len(p) : RLe(cdf[i], u)}),
         rng |-> s1]

\* exp(mean + sigma*z) in 1e-3 for z = -3..3, per (mean, sigma) of the catalog
ExpTable ==
    (<<Rat(21, 10), Rat(25, 100)>> :> <<3857, 4953, 6360, 8166, 10486, 13464, 17288>>)
 @@ (<<Rat(25, 10), Rat(28, 100)>> :> <<5259, 6959, 9207, 12182, 16119, 21328, 28219>>)
 @@ (<<Rat(29, 10), Rat(35, 100)>> :> <<6360, 9025, 12807, 18174, 25790, 36598, 51935>>)
 @@ (<<Rat(32, 10), Rat(32, 100)>> :> <<9393, 12936, 17814, 24533, 33784, 46525, 64072>>)

\* RNG.lognormal(mean, sigma), in 1e-3
RNG_lognormal(s, mean, sigma) ==
    LET s1 == rng_advance(s)
    IN  [val |-> ExpTable[<<mean, sigma>>][rng_standard_normal(s1) + 4],
         rng |-> s1]

\* np.log1p on the severities of ExpTable, 1e-3 -> 1e-3
np_log1p ==
    3857 :> 1580 @@ 4953 :> 1784 @@ 5259 :> 1834 @@ 6360 :> 1996 @@ 6959 :> 2074
 @@ 8166 :> 2216 @@ 9025 :> 2305 @@ 9207 :> 2323 @@ 9393 :> 2341 @@ 10486 :> 2441
 @@ 12182 :> 2579 @@ 12807 :> 2625 @@ 12936 :> 2634 @@ 13464 :> 2672
 @@ 16119 :> 2840 @@ 17288 :> 2906 @@ 17814 :> 2935 @@ 18174 :> 2954
 @@ 21328 :> 3106 @@ 24533 :> 3240 @@ 25790 :> 3288 @@ 28219 :> 3375
 @@ 33784 :> 3549 @@ 36598 :> 3627 @@ 46525 :> 3861 @@ 51935 :> 3969
 @@ 64072 :> 4175

\* Base covariance among the three hospitals, and its Cholesky factor in 1e-3
BASE_COV == <<<<60, 38, 32>>, <<38, 55, 29>>, <<32, 29, 45>>>>

BASE_COV_FACTOR == <<<<7746, 0, 0>>, <<4906, 5562, 0>>, <<4131, 1570, 5047>>>>

\* sqrt of the catalog's region_scale values, in 1e-3
SqrtTable ==
    Rat(8, 10) :> 894 @@ Rat(1, 1) :> 1000 @@ Rat(13, 10) :> 1140 @@ Rat(15, 10) :> 1225

\* RNG.multivariate_normal(zeros, scale * BASE_COV): factor times three
\* standard normals, in 1e-6
RNG_multivariate_normal(s, scale) ==
    LET z == rng_normals3(s)
    IN  [val |-> [i \in 1..3 |->
                    SqrtTable[scale] *
                    (BASE_COV_FACTOR[i][1] * z.val[1] + BASE_COV_FACTOR[i][2] * z.val[2]
                     + BASE_COV_FACTOR[i][3] * z.val[3])],
         rng |-> z.rng]

\* RNG.normal(0.0, sigma, size=3), in 1e-6
RNG_normal(s, sigma) ==
    LET z == rng_normals3(s)
    IN  [val |-> [i \in 1..3 |-> ((sigma[1] * 1000000) \div sigma[2]) * z.val[i]],
         rng |-> z.rng]

\* ============================================================================
\* continuous_dataset.py
\* ============================================================================
HOSPITALS == <<"H1", "H2", "H3">>

\* in 1e-6
baseline_demand == <<20000000, 15000000, 12000000>>

BASELINE_MIN_DEMAND == <<6000000, 4500000, 3500000>>

\* in 1e-2
severity_sensitivity == <<100, 85, 70>>

BASELINE_DEMAND_SCALE == 35

BASELINE_WEIGHT == Rat(1, 1)

hazard_catalog ==
    << [hazard_type |-> "seasonal_flu", weight |-> Rat(45, 100),
        lognorm_mu |-> Rat(21, 10), lognorm_sigma |-> Rat(25, 100),
        region_scale |-> Rat(8, 10), idio_sigma |-> Rat(6, 1)],
       [hazard_type |-> "coastal_storm", weight |-> Rat(25, 100),
        lognorm_mu |-> Rat(25, 10), lognorm_sigma |-> Rat(28, 100),
        region_scale |-> Rat(1, 1), idio_sigma |-> Rat(75, 10)],
       [hazard_type |-> "earthquake", weight |-> Rat(15, 100),
        lognorm_mu |-> Rat(29, 10), lognorm_sigma |-> Rat(35, 100),
        region_scale |-> Rat(13, 10), idio_sigma |-> Rat(9, 1)],
       [hazard_type |-> "pandemic_wave", weight |-> Rat(15, 100),
        lognorm_mu |-> Rat(32, 10), lognorm_sigma |-> Rat(32, 100),
        region_scale |-> Rat(15, 10), idio_sigma |-> Rat(11, 1)] >>

hazard_probs ==
    LET w == [i \in 1..Len(hazard_catalog) |-> hazard_catalog[i].weight]
    IN  [i \in 1..Len(w) |-> RDiv(w[i], RSum(w))]

build_baseline_draw ==
    [scenario_id |-> "CSBASE",
     hazard_type |-> "no_event",
     severity_score |-> 0,
     global_severity |-> 0,
     regional_component |-> <<0, 0, 0>>,
     idiosyncratic_component |-> <<0, 0, 0>>,
     raw_probability_weight |-> BASELINE_WEIGHT,
     demand_vector |->
        [h \in 1..3 |->
            LET scaled == (baseline_demand[h] * BASELINE_DEMAND_SCALE) \div 100
            IN  IF scaled > BASELINE_MIN_DEMAND[h] THEN scaled
                ELSE BASELINE_MIN_DEMAND[h]]]

\* the validation of sample_scenarios
count_rejected_nonpositive(num_random_draws) == num_random_draws <= 0

count_rejected(num_random_draws) == num_random_draws < 0

\* the unclipped sum of one random draw, per hospital, in 1e-6
raw_demand(global_severity, regional, idiosyncratic) ==
    [h \in 1..3 |->
        baseline_demand[h] + severity_sensitivity[h] * global_severity * 10
        + regional[h] + idiosyncratic[h]]

\* one iteration of sample_scenarios' loop from generator state s
sample_draw(s, idx) ==
    LET c == RNG_choice(s, hazard_probs)
        hazard == hazard_catalog[c.val + 1]
        g == RNG_lognormal(c.rng, hazard.lognorm_mu, hazard.lognorm_sigma)
        severity_score == np_log1p[g.val]
        regional == RNG_multivariate_normal(g.rng, hazard.region_scale)
        idiosyncratic == RNG_normal(regional.rng, hazard.idio_sigma)
        demand == raw_demand(g.val, regional.val, idiosyncratic.val)
    IN  [draw |->
            [scenario_id |-> "CS" \o Format04d(idx),
             hazard_type |-> hazard.hazard_type,
             severity_score |-> severity_score,
             global_severity |-> g.val,
             regional_component |-> regional.val,
             idiosyncratic_component |-> idiosyncratic.val,
             raw_probability_weight |->
                RMul(hazard.weight,
                     RAdd(Rat(severity_score, 1000), Rat(1, 1000000))),
             demand_vector |-> [h \in 1..3 |-> np_clip(demand[h], 0)]],
         rng |-> idiosyncratic.rng]

\* the baseline override of build_dataframe
reserve_share_undivided(probabilities, baseline_idx, share) ==
    [i \in 1..Len(probabilities) |->
        IF i = baseline_idx THEN share
        ELSE RMul(probabilities[i], RSub(RInt(1), share))]

reserve_share_unscaled(probabilities, baseline_idx, share) ==
    [i \in 1..Len(probabilities) |->
        IF i = baseline_idx THEN share ELSE probabilities[i]]

reserve_share(probabilities, baseline_idx, share) ==
    LET baseline_current == probabilities[baseline_idx]
        remaining_mass == RSub(RInt(1), share)
        residual == RSub(RInt(1), baseline_current)
    IN  IF RLe(residual, RInt(0))
        THEN [i \in 1..Len(probabilities) |->
                IF i = baseline_idx THEN RInt(1) ELSE RInt(0)]
        ELSE [i \in 1..Len(probabilities) |->
                IF i = baseline_idx THEN share
                ELSE RMul(probabilities[i], RDiv(remaining_mass, residual))]

scenario_probabilities(ds) ==
    LET weights == [i \in 1..Len(ds) |-> ds[i].raw_probability_weight]
        total == RSum(weights)
        probabilities == [i \in 1..Len(ds) |-> RDiv(weights[i], total)]
        baseline_indices == {i \in 1..Len(ds) : ds[i].scenario_id = "CSBASE"}
    IN  IF INCLUDE_BASELINE_SCENARIO /\ BASELINE_PROBABILITY_SHARE # <<>>
           /\ baseline_indices # {}
        THEN reserve_share(probabilities,
                           CHOOSE i \in baseline_indices :
                               \A k \in baseline_indices : i <= k,
                           RClip(BASELINE_PROBABILITY_SHARE[1], RInt(0), Rat(95, 100)))
        ELSE probabilities

build_dataframe(ds) ==
    LET probabilities == scenario_probabilities(ds)
    IN  Flatten([i \in 1..Len(ds) |->
            [h \in 1..3 |->
                [scenario_id |-> ds[i].scenario_id,
                 scenario_probability |-> probabilities[i],
                 disaster_type |-> ds[i].hazard_type,
                 severity_score |-> ds[i].severity_score,
                 hospital_id |-> HOSPITALS[h],
                 global_severity |-> ds[i].global_severity,
                 regional_component |-> ds[i].regional_component[h],
                 idiosyncratic_component |-> ds[i].idiosyncratic_component[h],
                 demand |-> np_round(ds[i].demand_vector[h], 10000)]]])

\* df[["scenario_id", "scenario_probability"]].drop_duplicates()
scenario_probs(frame) ==
    {<<frame[r].scenario_id, frame[r].scenario_probability>> : r \in 1..Len(frame)}

summarize_dataset(frame) ==
    [num_scenarios |-> Cardinality(scenario_probs(frame)),
     probability_sum |-> RSetSum(scenario_probs(frame))]

\* ============================================================================
\* dataset.py (the same table is repeated in hospital_continuous_dataset.py)
\* ============================================================================
scenarios ==
    << [sid |-> "S0", dtype |-> "no_disaster", demands |-> <<6, 5, 4>>,
        probability |-> Rat(65, 100)],
       [sid |-> "S1", dtype |-> "mild_flood", demands |-> <<60, 45, 35>>,
        probability |-> Rat(5, 100)],
       [sid |-> "S2", dtype |-> "moderate_flood", demands |-> <<85, 65, 45>>,
        probability |-> Rat(4, 100)],
       [sid |-> "S3", dtype |-> "earthquake", demands |-> <<110, 85, 65>>,
        probability |-> Rat(5, 100)],
       [sid |-> "S4", dtype |-> "heatwave", demands |-> <<70, 55, 45>>,
        probability |-> Rat(1, 10)],
       [sid |-> "S5", dtype |-> "severe_storm", demands |-> <<95, 75, 55>>,
        probability |-> Rat(5, 100)],
       [sid |-> "S6", dtype |-> "major_earthquake", demands |-> <<150, 110, 90>>,
        probability |-> Rat(4, 100)],
       [sid |-> "S7", dtype |-> "multi_wave_pandemic", demands |-> <<200, 140, 120>>,
        probability |-> Rat(2, 100)] >>

\* the rows of one scenario of the discrete table
dataset_rows(sc) ==
    [h \in 1..3 |->
        [scenario_id |-> sc.sid,
         scenario_probability |-> sc.probability,
         disaster_type |-> sc.dtype,
         hospital_id |-> HOSPITALS[h],
         demand |-> sc.demands[h]]]

\* ============================================================================
\* hospital_continuous_dataset.py
\* ============================================================================
NUM_CONTINUOUS_SAMPLES_PER_SCENARIO == 50

\* np.array(demands, dtype=float), in 1e-6
base_demand(sc) == [h \in 1..3 |-> sc.demands[h] * 1000000]

\* "probability / NUM_CONTINUOUS_SAMPLES_PER_SCENARIO"
split_probability_unsplit(probability) == probability

split_probability(probability) ==
    RDiv(probability, RInt(NUM_CONTINUOUS_SAMPLES_PER_SCENARIO))

\* f"{sid}_{sample_idx:03d}"
sub_scenario_id(sid, sample_idx) == sid \o "_" \o Format03d(sample_idx)

\* one iteration of the inner loop from generator state s: the three rows
\* of sub-scenario sample_idx of scenario sc
hybrid_sample(s, sc, sample_idx) ==
    LET regional == RNG_multivariate_normal(s, Rat(1, 1))
        idio == RNG_normal(regional.rng, Rat(5, 1))
        continuous_demand ==
            [h \in 1..3 |->
                np_round(np_clip(base_demand(sc)[h] + regional.val[h] + idio.val[h], 0),
                         1000000) \div 1000000]
    IN  [rows |->
            [h \in 1..3 |->
                [scenario_id |-> sub_scenario_id(sc.sid, sample_idx),
                 scenario_probability |-> split_probability(sc.probability),
                 disaster_type |-> sc.dtype,
                 hospital_id |-> HOSPITALS[h],
                 demand |-> continuous_demand[h],
                 regional_component |-> np_round(regional.val[h], 10000),
                 idiosyncratic_component |-> np_round(idio.val[h], 10000)]],
         rng |-> idio.rng]

\* ============================================================================
\* uncertainty_sets.py
\* ============================================================================
MINMAX_BOX_LEVELS == <<Rat(1, 1), Rat(3, 4), Rat(1, 2)>>

EV_BOX_LEVELS == <<0, 1, 2>>

\* A value q + k*sqrt(v), q and v rational, k an integer: what mean and std
\* combine to.  std itself is [q |-> 0, k |-> 1, v |-> variance].
Surd(q, k, v) == [q |-> q, k |-> k, v |-> v]

SurdNeg(x) == [q |-> RNeg(x.q), k |-> -x.k, v |-> x.v]

\* x >= L for an integer L
SurdGeInt(x, L) ==
    LET t == RSub(RInt(L), x.q)
        lhs == RMul(RInt(x.k * x.k), x.v)
        rhs == RMul(t, t)
    IN  IF x.k >= 0
        THEN RLe(t, RInt(0)) \/ RLe(rhs, lhs)
        ELSE RLe(t, RInt(0)) /\ RLe(lhs, rhs)

\* floor(sqrt(n)) for an integer n >= 0
ISqrt(n) == CHOOSE r \in 0..n : r * r <= n /\ n < (r + 1) * (r + 1)

\* floor(q) plus or minus floor(|k|*sqrt(v)): within 1 of floor(x)
SurdNear(x) ==
    LET m == ISqrt(RFloor(RMul(RInt(x.k * x.k), x.v)))
    IN  RFloor(x.q) + (IF x.k >= 0 THEN m ELSE -m)

\* np.floor and np.ceil followed by int()
np_floor(x) ==
    CHOOSE L \in (SurdNear(x) - 1)..(SurdNear(x) + 1) :
        SurdGeInt(x, L) /\ ~SurdGeInt(x, L + 1)

np_ceil(x) == -np_floor(SurdNeg(x))

\* Python's max(0.0, x): x when x > 0.0, else 0.0
py_max0_unclipped(x) == x

py_max0(x) == IF ~SurdGeInt(SurdNeg(x), 0) THEN x ELSE Surd(RInt(0), 0, RInt(0))

\* the "demand" cells of one hospital as rationals
demand_values(column) == [i \in 1..Len(column) |-> Rat(column[i], DemandDen)]

\* demands.min(), .max(), .mean(), .std(ddof=1)
hospital_stats(column) ==
    LET x == demand_values(column)
        n == Len(x)
        mean == RDiv(RSum(x), RInt(n))
        sq == [i \in 1..n |-> RMul(RSub(x[i], mean), RSub(x[i], mean))]
    IN  [min |-> CHOOSE m \in {x[i] : i \in 1..n} : \A i \in 1..n : RLe(m, x[i]),
         max |-> CHOOSE m \in {x[i] : i \in 1..n} : \A i \in 1..n : RLe(x[i], m),
         mean |-> mean,
         std |-> Surd(RInt(0), 1, RDiv(RSum(sq), RInt(n - 1)))]

\* the shrink of the min-max box on each side
minmax_shrink_double(dmin, dmax, alpha) ==
    RMul(RSub(dmax, dmin), RSub(RInt(1), alpha))

minmax_shrink_none(dmin, dmax, alpha) == RInt(0)

minmax_shrink(dmin, dmax, alpha) ==
    RDiv(RMul(RSub(dmax, dmin), RSub(RInt(1), alpha)), RInt(2))

minmax_row(st, alpha, hid) ==
    LET lower == RAdd(st.min, minmax_shrink(st.min, st.max, alpha))
        upper == RSub(st.max, minmax_shrink(st.min, st.max, alpha))
    IN  [uncertainty_type |-> "minmax_box",
         level |-> alpha,
         hospital_id |-> hid,
         lower_bound |-> np_floor(Surd(lower, 0, RInt(0))),
         upper_bound |-> np_ceil(Surd(upper, 0, RInt(0)))]

\* "k * sigma"
ev_halfwidth_wide(k, sigma) == sigma.k * (k + 1)

ev_halfwidth(k, sigma) == sigma.k * k

ev_row(st, k, hid) ==
    LET mu == st.mean
        sigma == st.std
        lower == py_max0(Surd(mu, -ev_halfwidth(k, sigma), sigma.v))
        upper == Surd(mu, ev_halfwidth(k, sigma), sigma.v)
    IN  [uncertainty_type |-> "ev_box",
         level |-> k,
         hospital_id |-> hid,
         lower_bound |-> np_floor(lower),
         upper_bound |-> np_ceil(upper)]

\* ============================================================================
\* The processes
\* ============================================================================
Scripts == {"dataset", "continuous", "hybrid", "uncertainty"}

Generators == {"continuous", "hybrid"}

\* the values BASELINE_PROBABILITY_SHARE is configured to: None, or a number
ShareValues ==
    {<<>>, <<Rat(-20, 100)>>, <<Rat(0, 1)>>, <<Rat(35, 100)>>, <<Rat(95, 100)>>,
     <<Rat(150, 100)>>}

\* one hospital's demand column, in cells of 1/DemandDen, at least two rows
Columns ==
    {c \in UNION {[1..n -> 0..MaxDemandNum] : n \in 2..MaxRows} :
        \A i \in 1..(Len(c) - 1) : c[i] <= c[i + 1]}

\* pd.read_csv(DATA_FILE): the three hospitals' columns.  H1 is the column
\* chosen, H2 its mirror image (descending), H3 a skewed column whose i-th
\* cell is scaled by i squared.
read_csv(c) ==
    ("H1" :> c)
 @@ ("H2" :> [i \in 1..Len(c) |-> MaxDemandNum - c[i]])
 @@ ("H3" :> [i \in 1..Len(c) |-> c[i] * i * i])

StartPc(s) ==
    CASE s = "dataset" -> "rows_loop"
      [] s = "continuous" -> "sample_scenarios"
      [] s = "hybrid" -> "rows_loop"
      [] s = "uncertainty" -> "stats_loop"

NoSummary == [num_scenarios |-> 0, probability_sum |-> RInt(0)]

NoOutput == [rows |-> <<>>, calls |-> <<>>, summary |-> NoSummary]

Init ==
    /\ script \in Scripts
    /\ pc = StartPc(script)
    /\ error = ""
    /\ run = 1
    /\ seed \in IF script \in Generators THEN 0..MaxSeed ELSE {0}
    /\ RNG = default_rng(seed)
    /\ calls = <<>>
    /\ NUM_SCENARIOS \in IF script = "continuous" THEN -1..MaxScenarios ELSE {0}
    /\ INCLUDE_BASELINE_SCENARIO \in IF script = "continuous" THEN BOOLEAN ELSE {TRUE}
    /\ BASELINE_PROBABILITY_SHARE \in
            IF script = "continuous" THEN ShareValues ELSE {<<Rat(35, 100)>>}
    /\ include_baseline \in IF script = "continuous" THEN BOOLEAN ELSE {TRUE}
    /\ draws = <<>>
    /\ loop = <<0, 0>>
    /\ rows = <<>>
    /\ summary = NoSummary
    /\ prev = NoOutput
    /\ df \in IF script = "uncertainty" THEN {read_csv(c) : c \in Columns}
              ELSE {<<>>}
    /\ stats = <<>>

Config == <<script, seed, NUM_SCENARIOS, INCLUDE_BASELINE_SCENARIO,
            BASELINE_PROBABILITY_SHARE, include_baseline, df>>

\* ------------------------------------------------------------ dataset.py
dataset_iter ==
    /\ script = "dataset" /\ pc = "rows_loop" /\ loop[1] < Len(scenarios)
    /\ rows' = rows \o dataset_rows(scenarios[loop[1] + 1])
    /\ loop' = <<loop[1] + 1, 0>>
    /\ UNCHANGED <<pc, error, run, RNG, calls, draws, summary, prev, stats, Config>>

dataset_to_csv ==
    /\ script = "dataset" /\ pc = "rows_loop" /\ loop[1] = Len(scenarios)
    /\ pc' = "done"
    /\ UNCHANGED <<error, run, RNG, calls, draws, loop, rows, summary, prev, stats,
                   Config>>

\* -------------------------------------------------- continuous_dataset.py
num_random_draws == NUM_SCENARIOS - (IF include_baseline THEN 1 ELSE 0)

sample_scenarios_begin ==
    /\ script = "continuous" /\ pc = "sample_scenarios"
    /\ IF count_rejected(num_random_draws)
       THEN /\ pc' = "raised"
            /\ error' = "ValueError"
            /\ UNCHANGED draws
       ELSE /\ pc' = "sample_loop"
            /\ draws' = IF include_baseline THEN <<build_baseline_draw>> ELSE <<>>
            /\ UNCHANGED error
    /\ UNCHANGED <<run, RNG, calls, loop, rows, summary, prev, stats, Config>>

sample_scenarios_iter ==
    /\ script = "continuous" /\ pc = "sample_loop" /\ loop[1] < num_random_draws
    /\ LET d == sample_draw(RNG, loop[1])
       IN  /\ draws' = Append(draws, d.draw)
           /\ RNG' = d.rng
    /\ calls' = calls \o <<"choice", "lognormal", "multivariate_normal", "normal">>
    /\ loop' = <<loop[1] + 1, 0>>
    /\ UNCHANGED <<pc, error, run, rows, summary, prev, stats, Config>>

sample_scenarios_return ==
    /\ script = "continuous" /\ pc = "sample_loop" /\ loop[1] = num_random_draws
    /\ pc' = "build_dataframe"
    /\ UNCHANGED <<error, run, RNG, calls, draws, loop, rows, summary, prev, stats,
                   Config>>

build_dataframe_to_csv ==
    /\ script = "continuous" /\ pc = "build_dataframe"
    /\ rows' = build_dataframe(draws)
    /\ pc' = "summarize_dataset"
    /\ UNCHANGED <<error, run, RNG, calls, draws, loop, summary, prev, stats, Config>>

\* an empty frame has no columns: selecting two of them raises KeyError
summarize_dataset_write ==
    /\ script = "continuous" /\ pc = "summarize_dataset"
    /\ IF rows = <<>>
       THEN /\ pc' = "raised"
            /\ error' = "KeyError"
            /\ UNCHANGED summary
       ELSE /\ pc' = "done"
            /\ summary' = summarize_dataset(rows)
            /\ UNCHANGED error
    /\ UNCHANGED <<run, RNG, calls, draws, loop, rows, prev, stats, Config>>

\* ------------------------------------------ hospital_continuous_dataset.py
hybrid_iter ==
    /\ script = "hybrid" /\ pc = "rows_loop" /\ loop[1] < Len(scenarios)
    /\ LET r == hybrid_sample(RNG, scenarios[loop[1] + 1], loop[2])
       IN  /\ rows' = rows \o r.rows
           /\ RNG' = r.rng
    /\ calls' = calls \o <<"multivariate_normal", "normal">>
    /\ loop' = IF loop[2] + 1 = NUM_CONTINUOUS_SAMPLES_PER_SCENARIO
               THEN <<loop[1] + 1, 0>> ELSE <<loop[1], loop[2] + 1>>
    /\ UNCHANGED <<pc, error, run, draws, summary, prev, stats, Config>>

hybrid_to_csv ==
    /\ script = "hybrid" /\ pc = "rows_loop" /\ loop[1] = Len(scenarios)
    /\ pc' = "done"
    /\ UNCHANGED <<error, run, RNG, calls, draws, loop, rows, summary, prev, stats,
                   Config>>

\* a generator is run again: a new process, which seeds RNG at import
rerun ==
    /\ script \in Generators /\ pc = "done" /\ run = 1
    /\ prev' = [rows |-> rows, calls |-> calls, summary |-> summary]
    /\ run' = 2
    /\ RNG' = default_rng(seed)
    /\ calls' = <<>>
    /\ draws' = <<>>
    /\ loop' = <<0, 0>>
    /\ rows' = <<>>
    /\ summary' = NoSummary
    /\ pc' = StartPc(script)
    /\ UNCHANGED <<error, stats, Config>>

\* ----------------------------------------------------- uncertainty_sets.py
stats_iter ==
    /\ script = "uncertainty" /\ pc = "stats_loop"
    /\ LET hid == HOSPITALS[loop[1] + 1]
       IN  stats' = (hid :> hospital_stats(df[hid])) @@ stats
    /\ IF loop[1] + 1 = Len(HOSPITALS)
       THEN pc' = "minmax_loop" /\ loop' = <<0, 0>>
       ELSE pc' = pc /\ loop' = <<loop[1] + 1, 0>>
    /\ UNCHANGED <<error, run, RNG, calls, draws, rows, summary, prev, Config>>

\* the next <<level, hospital>> pair of a nested loop, hospitals innermost
next_pair(l) ==
    IF l[2] + 1 = Len(HOSPITALS) THEN <<l[1] + 1, 0>> ELSE <<l[1], l[2] + 1>>

minmax_iter ==
    /\ script = "uncertainty" /\ pc = "minmax_loop"
    /\ LET hid == HOSPITALS[loop[2] + 1]
       IN  rows' = Append(rows, minmax_row(stats[hid], MINMAX_BOX_LEVELS[loop[1] + 1], hid))
    /\ IF next_pair(loop)[1] = Len(MINMAX_BOX_LEVELS)
       THEN pc' = "ev_loop" /\ loop' = <<0, 0>>
       ELSE pc' = pc /\ loop' = next_pair(loop)
    /\ UNCHANGED <<error, run, RNG, calls, draws, summary, prev, stats, Config>>

ev_iter ==
    /\ script = "uncertainty" /\ pc = "ev_loop"
    /\ LET hid == HOSPITALS[loop[2] + 1]
       IN  rows' = Append(rows, ev_row(stats[hid], EV_BOX_LEVELS[loop[1] + 1], hid))
    /\ IF next_pair(loop)[1] = Len(EV_BOX_LEVELS)
       THEN pc' = "to_csv" /\ loop' = <<0, 0>>
       ELSE pc' = pc /\ loop' = next_pair(loop)
    /\ UNCHANGED <<error, run, RNG, calls, draws, summary, prev, stats, Config>>

uncertainty_to_csv ==
    /\ script = "uncertainty" /\ pc = "to_csv"
    /\ pc' = "done"
    /\ UNCHANGED <<error, run, RNG, calls, draws, loop, rows, summary, prev, stats,
                   Config>>

Next ==
    \/ dataset_iter
    \/ dataset_to_csv
    \/ sample_scenarios_begin
    \/ sample_scenarios_iter
    \/ sample_scenarios_return
    \/ build_dataframe_to_csv
    \/ summarize_dataset_write
    \/ hybrid_iter
    \/ hybrid_to_csv
    \/ rerun
    \/ stats_iter
    \/ minmax_iter
    \/ ev_iter
    \/ uncertainty_to_csv

Spec == Init /\ [][Next]_vars

\* ============================================================================
\* Properties
\* ============================================================================
Ids(frame) == {frame[r].scenario_id : r \in 1..Len(frame)}

RowsOf(frame, id) == {r \in 1..Len(frame) : frame[r].scenario_id = id}

ProbOf(frame, id) == frame[CHOOSE r \in RowsOf(frame, id) : TRUE].scenario_probability

\* the sum of s[lo..hi], by halves
RECURSIVE RSumRange(_, _, _)
RSumRange(s, lo, hi) ==
    IF lo > hi THEN RInt(0)
    ELSE IF lo = hi THEN s[lo]
    ELSE RAdd(RSumRange(s, lo, (lo + hi) \div 2),
              RSumRange(s, ((lo + hi) \div 2) + 1, hi))

\* the probabilities of the scenarios in ids, each taken once: at the first
\* row of the scenario
SumOverIds(frame, ids) ==
    LET first == {r \in 1..Len(frame) :
                    /\ frame[r].scenario_id \in ids
                    /\ \A q \in 1..(r - 1) : frame[q].scenario_id # frame[r].scenario_id}
        terms == [r \in 1..Len(frame) |->
                    IF r \in first THEN frame[r].scenario_probability ELSE RInt(0)]
    IN  RSumRange(terms, 1, Len(frame))

ContinuousWritten == script = "continuous" /\ pc \in {"summarize_dataset", "done"}

\* C1: in every non-empty frame build_dataframe returns, the
\* scenario_probability values taken once per distinct scenario_id sum to 1,
\* and so does the probability_sum of the summary, whatever
\* BASELINE_PROBABILITY_SHARE is and whether or not CSBASE is among the draws.
C1_ProbabilitiesSumToOne ==
    /\ (ContinuousWritten /\ rows # <<>>) => SumOverIds(rows, Ids(rows)) = RInt(1)
    /\ (script = "continuous" /\ pc = "done") => summary.probability_sum = RInt(1)

C1_Witness ==
    /\ script = "continuous" /\ pc = "done"
    /\ INCLUDE_BASELINE_SCENARIO /\ include_baseline
    /\ BASELINE_PROBABILITY_SHARE = <<Rat(150, 100)>>
    /\ Len(draws) >= 3
    /\ ProbOf(rows, "CSBASE") = Rat(95, 100)
    /\ summary.num_scenarios = Len(draws)

BaselineAt35 ==
    /\ script = "continuous" /\ pc = "done"
    /\ INCLUDE_BASELINE_SCENARIO /\ include_baseline
    /\ BASELINE_PROBABILITY_SHARE = <<Rat(35, 100)>>

ReservedAt35 ==
    /\ ProbOf(rows, "CSBASE") = Rat(35, 100)
    /\ SumOverIds(rows, Ids(rows) \ {"CSBASE"}) = Rat(65, 100)

\* C2 as stated: with the baseline enabled and the share 0.35, for every
\* accepted scenario count N >= 1 CSBASE ends with probability 0.35 and the
\* other scenarios' probabilities sum to 0.65.
C2_Original == BaselineAt35 => ReservedAt35

\* C2 as amended: with the baseline enabled and the share 0.35, for every
\* scenario count N >= 2 CSBASE ends with probability 0.35 and the other
\* scenarios' probabilities sum to 0.65; for N = 1 CSBASE is the only
\* scenario and keeps probability 1.
C2_ReservedShare ==
    BaselineAt35 =>
        /\ NUM_SCENARIOS >= 2 => ReservedAt35
        /\ NUM_SCENARIOS = 1 => ProbOf(rows, "CSBASE") = RInt(1) /\ Ids(rows) = {"CSBASE"}

C2_Witness == BaselineAt35 /\ NUM_SCENARIOS = 3 /\ ReservedAt35 /\ Cardinality(Ids(rows)) = 3

\* C3: every demand value of the three generators is >= 0: the demand
\* vector of every draw and the demand of every row assembled or written.
C3_DemandNonNegative ==
    script \in {"dataset", "continuous", "hybrid"} =>
        /\ \A r \in 1..Len(rows) : rows[r].demand >= 0
        /\ \A d \in 1..Len(draws) : \A h \in 1..3 : draws[d].demand_vector[h] >= 0

\* a hybrid row whose unclipped sum is below -1 and whose demand is 0, and a
\* later row with a positive demand
C3_Witness ==
    /\ script = "hybrid"
    /\ \E r \in 1..Len(rows) :
        /\ rows[r].disaster_type = "no_disaster" /\ rows[r].hospital_id = "H3"
        /\ 4000000 + rows[r].regional_component + rows[r].idiosyncratic_component
               < -1000000
        /\ rows[r].demand = 0
    /\ \E r \in 1..Len(rows) : rows[r].demand > 0

\* --------------------------------------------------- uncertainty_sets.py
MinmaxBuilt == script = "uncertainty" /\ pc \in {"ev_loop", "to_csv", "done"}

EvBuilt == script = "uncertainty" /\ pc \in {"to_csv", "done"}

MinmaxRow(alpha, hid) ==
    rows[CHOOSE r \in 1..Len(rows) :
            /\ rows[r].uncertainty_type = "minmax_box"
            /\ rows[r].level = alpha /\ rows[r].hospital_id = hid]

EvRow(k, hid) ==
    rows[CHOOSE r \in 1..Len(rows) :
            /\ rows[r].uncertainty_type = "ev_box"
            /\ rows[r].level = k /\ rows[r].hospital_id = hid]

Width(row) == row.upper_bound - row.lower_bound

HospitalIds == {HOSPITALS[h] : h \in 1..Len(HOSPITALS)}

\* a hospital's smallest and largest cell and the sum of its cells, in 1/DemandDen
CellMin(hid) == CHOOSE m \in {df[hid][i] : i \in 1..Len(df[hid])} :
                    \A i \in 1..Len(df[hid]) : m <= df[hid][i]

CellMax(hid) == CHOOSE m \in {df[hid][i] : i \in 1..Len(df[hid])} :
                    \A i \in 1..Len(df[hid]) : df[hid][i] <= m

RECURSIVE IntSum(_)
IntSum(s) == IF s = <<>> THEN 0 ELSE s[1] + IntSum(Tail(s))

CellSum(hid) == IntSum(df[hid])

\* L = floor(num/den) and U = ceil(num/den), den > 0
IsFloorOf(L, num, den) == L * den <= num /\ num < (L + 1) * den

IsCeilOf(U, num, den) == (U - 1) * den < num /\ num <= U * den

FullBoxIsMinMax(hid) ==
    /\ IsFloorOf(MinmaxRow(Rat(1, 1), hid).lower_bound, CellMin(hid), DemandDen)
    /\ IsCeilOf(MinmaxRow(Rat(1, 1), hid).upper_bound, CellMax(hid), DemandDen)

HalfBoxNarrower(hid) == Width(MinmaxRow(Rat(1, 2), hid)) < Width(MinmaxRow(Rat(1, 1), hid))

\* C4 as stated: at level 1.0 lower_bound = floor(min) and upper_bound =
\* ceil(max); for every hospital with max > min the emitted interval at level
\* 0.5 is strictly narrower than the one at level 1.0.
C4_Original ==
    MinmaxBuilt =>
        \A hid \in HospitalIds :
            /\ FullBoxIsMinMax(hid)
            /\ CellMax(hid) > CellMin(hid) => HalfBoxNarrower(hid)

\* C4 as amended: at level 1.0 lower_bound = floor(min) and upper_bound =
\* ceil(max); the emitted interval at level 0.5 is never wider than the one
\* at level 1.0, and it is strictly narrower for every hospital whose
\* max - min is at least 4.
C4_MinmaxBox ==
    MinmaxBuilt =>
        \A hid \in HospitalIds :
            /\ FullBoxIsMinMax(hid)
            /\ Width(MinmaxRow(Rat(1, 2), hid)) <= Width(MinmaxRow(Rat(1, 1), hid))
            /\ CellMax(hid) - CellMin(hid) >= 4 * DemandDen => HalfBoxNarrower(hid)

C4_Witness ==
    /\ MinmaxBuilt
    /\ \E hid \in HospitalIds :
        /\ CellMax(hid) - CellMin(hid) >= 4 * DemandDen
        /\ CellMin(hid) % DemandDen # 0
        /\ HalfBoxNarrower(hid)
    /\ \E hid \in HospitalIds :
        /\ CellMax(hid) > CellMin(hid)
        /\ Width(MinmaxRow(Rat(1, 2), hid)) = Width(MinmaxRow(Rat(1, 1), hid))

\* lower_bound <= mean <= upper_bound
MeanWithin(row, hid) ==
    /\ row.lower_bound * Len(df[hid]) * DemandDen <= CellSum(hid)
    /\ CellSum(hid) <= row.upper_bound * Len(df[hid]) * DemandDen

\* lower_bound <= (min + max)/2 <= upper_bound
MidpointWithin(row, hid) ==
    /\ row.lower_bound * 2 * DemandDen <= CellMin(hid) + CellMax(hid)
    /\ CellMin(hid) + CellMax(hid) <= row.upper_bound * 2 * DemandDen

\* the row's bounds are floor and ceil of midpoint -/+ (a/4)*(max - min)/2
ShrunkAboutMidpoint(row, a, hid) ==
    LET mn == CellMin(hid)
        mx == CellMax(hid)
    IN  /\ IsFloorOf(row.lower_bound, 4 * (mn + mx) - a * (mx - mn), 8 * DemandDen)
        /\ IsCeilOf(row.upper_bound, 4 * (mn + mx) + a * (mx - mn), 8 * DemandDen)

\* C5 as stated: the box is [min, max] shrunk symmetrically toward the
\* hospital's mean demand, so the mean lies within [lower_bound, upper_bound]
\* at levels 1.0, 0.75 and 0.5.
C5_Original ==
    MinmaxBuilt =>
        \A hid \in HospitalIds : \A a \in {4, 3, 2} :
            MeanWithin(MinmaxRow(Rat(a, 4), hid), hid)

\* C5 as amended: at every level the box is [min, max] shrunk symmetrically
\* toward the midpoint (min + max)/2 of the empirical range, so the midpoint
\* lies within [lower_bound, upper_bound] at levels 1.0, 0.75 and 0.5; the
\* mean demand lies within the box at level 1.0.
C5_MinmaxShrink ==
    MinmaxBuilt =>
        \A hid \in HospitalIds :
            /\ \A a \in {4, 3, 2} :
                /\ ShrunkAboutMidpoint(MinmaxRow(Rat(a, 4), hid), a, hid)
                /\ MidpointWithin(MinmaxRow(Rat(a, 4), hid), hid)
            /\ MeanWithin(MinmaxRow(Rat(1, 1), hid), hid)

\* a hospital whose mean lies below the level-0.5 box while the midpoint is inside
C5_Witness ==
    /\ MinmaxBuilt
    /\ \E hid \in HospitalIds :
        /\ CellSum(hid) <
              MinmaxRow(Rat(1, 2), hid).lower_bound * Len(df[hid]) * DemandDen
        /\ MidpointWithin(MinmaxRow(Rat(1, 2), hid), hid)
        /\ ShrunkAboutMidpoint(MinmaxRow(Rat(1, 2), hid), 2, hid)

\* round(sum/count): the nearest integer, ties to even
RoundedMean(hid) ==
    np_round(CellSum(hid), Len(df[hid]) * DemandDen) \div (Len(df[hid]) * DemandDen)

\* C6 as stated: at k = 0, lower_bound = upper_bound = round(mean) for every
\* hospital and every demand column, also when the mean is not an integer.
C6_Original ==
    EvBuilt =>
        \A hid \in HospitalIds :
            /\ EvRow(0, hid).lower_bound = RoundedMean(hid)
            /\ EvRow(0, hid).upper_bound = RoundedMean(hid)

\* C6 as amended: at k = 0, for every hospital and every column of
\* non-negative demands, lower_bound = floor(mean) and upper_bound =
\* ceil(mean); the box is the single point round(mean) exactly when the mean
\* is an integer, and otherwise upper_bound = lower_bound + 1.
C6_EvBoxAtZero ==
    EvBuilt =>
        \A hid \in HospitalIds :
            LET row == EvRow(0, hid)
                den == Len(df[hid]) * DemandDen
            IN  /\ IsFloorOf(row.lower_bound, CellSum(hid), den)
                /\ IsCeilOf(row.upper_bound, CellSum(hid), den)
                /\ IF CellSum(hid) % den = 0
                   THEN /\ row.lower_bound = row.upper_bound
                        /\ row.lower_bound = RoundedMean(hid)
                   ELSE row.upper_bound = row.lower_bound + 1

C6_Witness ==
    /\ EvBuilt
    /\ \E hid \in HospitalIds :
        /\ CellSum(hid) % (Len(df[hid]) * DemandDen) # 0
        /\ EvRow(0, hid).upper_bound = EvRow(0, hid).lower_bound + 1
    /\ \E hid \in HospitalIds :
        /\ CellSum(hid) % (Len(df[hid]) * DemandDen) = 0
        /\ EvRow(0, hid).upper_bound = EvRow(0, hid).lower_bound

EvRows == {r \in 1..Len(rows) : rows[r].uncertainty_type = "ev_box"}

\* mean + k*std of a hospital's column
MeanPlus(hid, k) ==
    Surd(hospital_stats(df[hid]).mean, k, hospital_stats(df[hid]).std.v)

\* C7: every ev_box row has lower_bound >= 0, also when mean - k*std is
\* negative; its upper_bound is ceil(mean + k*std), not clipped, and
\* lower_bound <= upper_bound.
C7_EvBoxBounds ==
    script = "uncertainty" =>
        \A r \in EvRows :
            /\ rows[r].lower_bound >= 0
            /\ rows[r].lower_bound <= rows[r].upper_bound
            /\ SurdGeInt(SurdNeg(MeanPlus(rows[r].hospital_id, rows[r].level)),
                         -rows[r].upper_bound)
            /\ ~SurdGeInt(SurdNeg(MeanPlus(rows[r].hospital_id, rows[r].level)),
                          1 - rows[r].upper_bound)

\* a row at k = 2 with mean - 2*std negative, lower_bound 0 and upper_bound
\* above the largest demand
C7_Witness ==
    /\ script = "uncertainty"
    /\ \E r \in EvRows :
        /\ rows[r].level = 2
        /\ ~SurdGeInt(MeanPlus(rows[r].hospital_id, -2), 0)
        /\ rows[r].lower_bound = 0
        /\ rows[r].upper_bound * DemandDen > CellMax(rows[r].hospital_id)

\* ------------------------------------------ hospital_continuous_dataset.py
HybridWritten == script = "hybrid" /\ pc = "done"

\* the scenario_ids written for one discrete scenario
SubScenarioIds(sc) ==
    {rows[r].scenario_id : r \in {q \in 1..Len(rows) : rows[q].disaster_type = sc.dtype}}

\* C8: each of the 8 discrete scenarios is expanded into exactly
\* NUM_CONTINUOUS_SAMPLES_PER_SCENARIO sub-scenarios with distinct ids
\* "<sid>_<nnn>", each carrying probability (original probability / number
\* of samples) on all of its 3 hospital rows; the sub-scenario probabilities
\* of a discrete scenario sum to its original probability and the total over
\* all distinct scenario_ids is 1.
C8_HybridProbabilitySplit ==
    HybridWritten =>
        /\ Len(scenarios) = 8
        /\ Cardinality(Ids(rows)) = 8 * NUM_CONTINUOUS_SAMPLES_PER_SCENARIO
        /\ Len(rows) = 3 * Cardinality(Ids(rows))
        /\ \A s \in 1..Len(scenarios) :
            LET sc == scenarios[s]
                ids == SubScenarioIds(sc)
            IN  /\ Cardinality(ids) = NUM_CONTINUOUS_SAMPLES_PER_SCENARIO
                /\ sc.sid \o "_000" \in ids
                /\ sc.sid \o "_049" \in ids
                /\ \A id \in ids :
                    /\ {rows[r].hospital_id : r \in RowsOf(rows, id)} = HospitalIds
                    /\ Cardinality(RowsOf(rows, id)) = 3
                    /\ \A r \in RowsOf(rows, id) :
                        /\ rows[r].disaster_type = sc.dtype
                        /\ RMul(rows[r].scenario_probability,
                                RInt(NUM_CONTINUOUS_SAMPLES_PER_SCENARIO)) = sc.probability
                /\ SumOverIds(rows, ids) = sc.probability
        /\ UNION {SubScenarioIds(scenarios[s]) : s \in 1..Len(scenarios)} = Ids(rows)
        /\ RSum([s \in 1..Len(scenarios) |->
                    SumOverIds(rows, SubScenarioIds(scenarios[s]))]) = RInt(1)

C8_Witness ==
    /\ HybridWritten
    /\ Len(rows) = 1200
    /\ \E r \in 1..Len(rows) :
        /\ rows[r].scenario_id = "S4_017"
        /\ rows[r].scenario_probability = Rat(1, 500)

\* ------------------------------------------------------- sample_scenarios
SampleReturned ==
    script = "continuous" /\ pc \in {"build_dataframe", "summarize_dataset", "done"}

\* C9: sample_scenarios with a baseline required rejects every count below 1
\* with a ValueError, before the baseline draw is appended and before any
\* value is taken from the generator; it accepts every count >= 1, returning
\* exactly that many draws with CSBASE first.  Without a baseline no count
\* >= 0 is rejected.
C9_CountValidation ==
    script = "continuous" =>
        /\ (include_baseline /\ NUM_SCENARIOS < 1 /\ pc # "sample_scenarios") =>
              /\ pc = "raised" /\ error = "ValueError"
              /\ draws = <<>> /\ calls = <<>> /\ RNG = default_rng(seed)
        /\ (include_baseline /\ NUM_SCENARIOS >= 1) =>
              /\ error # "ValueError"
              /\ SampleReturned =>
                    /\ Len(draws) = NUM_SCENARIOS
                    /\ draws[1].scenario_id = "CSBASE"
                    /\ \A d \in 2..Len(draws) : draws[d].scenario_id # "CSBASE"
        /\ (~include_baseline /\ NUM_SCENARIOS >= 0) =>
              /\ error # "ValueError"
              /\ SampleReturned => Len(draws) = NUM_SCENARIOS

C9_Witness ==
    /\ script = "continuous" /\ include_baseline /\ NUM_SCENARIOS = 0
    /\ pc = "raised" /\ error = "ValueError" /\ draws = <<>>

\* -------------------------------------------------------- reproducibility
Repeat(s, n) == [i \in 1..(n * Len(s)) |-> s[((i - 1) % Len(s)) + 1]]

====
